---------------------------- MODULE Spec2Model ----------------------------
(***************************************************************************)
(* Model of the rule-based Dockerfile rewrite pipeline of                  *)
(* src/dockerfile-optimizer.py (class DockerfileOptimizer and the pipeline *)
(* part of DockerfileAnalyzer.analyze_dockerfile).                         *)
(*                                                                         *)
(* A document is a sequence of tokens.  A token is a string that stands    *)
(* for exactly that piece of text: a word without white space, one blank,  *)
(* an indentation of four or eight blanks, a backslash or a newline.  The  *)
(* text of a document is the concatenation of its tokens.  The regular     *)
(* expressions and the str methods of the source are modelled on token     *)
(* sequences: a literal of a pattern is a sequence of whole tokens, \s is  *)
(* a white-space token, "." is any token but the newline.  The last token  *)
(* of every line of an input document is one character long, so that the   *)
(* slice content[:-1] of the source removes exactly one token.             *)
(***************************************************************************)
EXTENDS Integers, Sequences, FiniteSets, TLC

VARIABLES
    input,          \* the text read from dockerfile_path by the current run
    doc,            \* the local variable content of analyze_dockerfile
    pc,             \* the position of analyze_dockerfile in its pipeline
    run,            \* how many times the pipeline was started
    requirements,   \* the file requirements.txt of the working directory
    dockerignore    \* the file .dockerignore next to the Dockerfile

vars == <<input, doc, pc, run, requirements, dockerignore>>

----------------------------------------------------------------------------
(* Bounds of the model *)

\* the number of lines of an input document
MaxLines == 4

\* how many times the pipeline is run, each run on the output of the last
MaxRuns == 2

----------------------------------------------------------------------------
(* Tokens *)

NL == "\n"
BS == "\\"
SP == " "
IND4 == "    "
IND8 == "        "

\* the tokens matched by \s
WS == {SP, IND4, IND8, NL}

\* the tokens matched by [\s\\]
WSB == WS \cup {BS}

\* the one-character tokens, in the order of their code points (str order)
CharOrder == <<"*", "/", "1", "=", "A", "B", "C", "a", "b", "f", "r", "u", "x", "y">>

Code(t) == CHOOSE k \in 1..Len(CharOrder) : CharOrder[k] = t

----------------------------------------------------------------------------
(* str and list helpers of Python *)

\* s[i:j] with 1-based inclusive token positions, empty when j < i
Slice(s, i, j) == IF j < i THEN <<>> ELSE SubSeq(s, i, j)

\* whether the token sequence pat occurs in s at position i
OccursAt(s, pat, i) ==
    /\ i >= 1
    /\ i + Len(pat) - 1 <= Len(s)
    /\ \A k \in 1..Len(pat) : s[i + k - 1] = pat[k]

\* str.find(pat, start): the first position >= start where pat occurs, 0 for -1
RECURSIVE find(_, _, _)
find(s, pat, start) ==
    IF start + Len(pat) - 1 > Len(s) THEN 0
    ELSE IF OccursAt(s, pat, start) THEN start
    ELSE find(s, pat, start + 1)

\* str.replace(pat, ''): removes the occurrences of pat, left to right
RECURSIVE replace_from(_, _, _)
replace_from(s, pat, i) ==
    IF i > Len(s) THEN <<>>
    ELSE IF OccursAt(s, pat, i) THEN replace_from(s, pat, i + Len(pat))
    ELSE <<s[i]>> \o replace_from(s, pat, i + 1)

replace(s, pat) == replace_from(s, pat, 1)

\* sep.join(parts) for a sequence of token sequences
RECURSIVE join(_, _)
join(sep, parts) ==
    IF parts = <<>> THEN <<>>
    ELSE IF Len(parts) = 1 THEN parts[1]
    ELSE parts[1] \o sep \o join(sep, Tail(parts))

\* re.sub(r'\n\n+', '\n\n', s): a run of newlines keeps its first two
collapse_blank_lines(s) ==
    LET keep(k) == ~(k >= 3 /\ s[k] = NL /\ s[k - 1] = NL /\ s[k - 2] = NL)
        RECURSIVE from(_)
        from(k) == IF k > Len(s) THEN <<>>
                   ELSE IF keep(k) THEN <<s[k]>> \o from(k + 1)
                   ELSE from(k + 1)
    IN  from(1)

\* str.split(): the maximal runs of tokens that are not white space
RECURSIVE split_from(_, _, _)
split_from(g, i, word) ==
    IF i > Len(g) THEN (IF word = <<>> THEN {} ELSE {word})
    ELSE IF g[i] \in WS
         THEN (IF word = <<>> THEN {} ELSE {word}) \cup split_from(g, i + 1, <<>>)
         ELSE split_from(g, i + 1, Append(word, g[i]))

split(g) == split_from(g, 1, <<>>)

\* the order of str on words of one-character tokens
RECURSIVE word_le(_, _)
word_le(v, w) ==
    IF v = <<>> THEN TRUE
    ELSE IF w = <<>> THEN FALSE
    ELSE IF v[1] = w[1] THEN word_le(Tail(v), Tail(w))
    ELSE Code(v[1]) < Code(w[1])

\* sorted(packages)
RECURSIVE sorted(_)
sorted(S) ==
    IF S = {} THEN <<>>
    ELSE LET least == CHOOSE v \in S : \A w \in S : word_le(v, w)
         IN  <<least>> \o sorted(S \ {least})

----------------------------------------------------------------------------
(* The scanner of the package-install families *)

\* the end of the lazy .*? before (?=\n[^\n]|$) under re.DOTALL: the first
\* position p >= i that is the end of the text, the newline that ends the
\* text, or a newline followed by a token that is not a newline
RECURSIVE span_end(_, _)
span_end(s, p) ==
    IF p > Len(s) THEN p
    ELSE IF s[p] = NL /\ (p = Len(s) \/ s[p + 1] # NL) THEN p
    ELSE span_end(s, p + 1)

\* the matches of re.findall(pattern, s, re.DOTALL) for the literals lits
\* followed by .*?(?=\n[^\n]|$): the first and the last token of each match,
\* in the order of the document
RECURSIVE find_spans(_, _, _)
find_spans(s, lits, i) ==
    IF i > Len(s) THEN <<>>
    ELSE IF \E l \in lits : OccursAt(s, l, i)
         THEN LET l == CHOOSE m \in lits : OccursAt(s, m, i)
                  e == span_end(s, i + Len(l))
              IN  <<[from |-> i, to |-> e - 1]>> \o find_spans(s, lits, e)
         ELSE find_spans(s, lits, i + 1)

\* the list re.findall returns: the matched texts
findall(s, lits) ==
    LET spans == find_spans(s, lits, 1)
    IN  [k \in 1..Len(spans) |-> Slice(s, spans[k].from, spans[k].to)]

\* whether [\s\\]*\n matches at position k
RECURSIVE tail_ok(_, _)
tail_ok(s, k) ==
    /\ k <= Len(s)
    /\ \/ s[k] = NL
       \/ s[k] \in WSB /\ tail_ok(s, k + 1)

\* the end of the lazy group (.+?) that starts at a and is followed by
\* [\s\\]*\n, 0 when there is none
RECURSIVE group_end(_, _, _)
group_end(s, a, b) ==
    IF b > Len(s) \/ s[b] = NL THEN 0
    ELSE IF tail_ok(s, b + 1) THEN b
    ELSE group_end(s, a, b + 1)

\* the first position >= j of a token that is not white space
RECURSIVE ws_run_end(_, _)
ws_run_end(s, j) ==
    IF j > Len(s) \/ s[j] \notin WS THEN j ELSE ws_run_end(s, j + 1)

\* \s+(.+?)[\s\\]*\n after a literal that ends before j: the greedy \s+ gives
\* back one token at a time; the group, or <<>> when nothing matches
RECURSIVE group_after(_, _, _)
group_after(s, j, a) ==
    IF a <= j THEN <<>>
    ELSE IF a <= Len(s) /\ group_end(s, a, a) # 0
         THEN Slice(s, a, group_end(s, a, a))
         ELSE group_after(s, j, a - 1)

\* re.findall(lit\s+(.+?)[\s\\]*\n, cmd)[0] if there is a match, else <<>>
RECURSIVE first_group(_, _, _)
first_group(cmd, lit, i) ==
    IF i + Len(lit) - 1 > Len(cmd) THEN <<>>
    ELSE LET j == i + Len(lit)
             g == group_after(cmd, j, ws_run_end(cmd, j))
         IN  IF OccursAt(cmd, lit, i) /\ g # <<>> THEN g
             ELSE first_group(cmd, lit, i + 1)

\* the set built by the loop  for cmd in commands: packages.update(...)
extract_packages(commands, lit) ==
    UNION { split(first_group(commands[k], lit, 1)) : k \in 1..Len(commands) }

\* the loop  for cmd in commands: content = content.replace(cmd, '')
RECURSIVE remove_commands(_, _)
remove_commands(s, commands) ==
    IF commands = <<>> THEN s
    ELSE remove_commands(replace(s, commands[1]), Tail(commands))

\* the insertion after FROM:
\*   from_idx = content.find('\n', content.find('FROM'))
\*   content[:from_idx] + '\n' + combined_command + content[from_idx:]
\* from_idx is the number of tokens before the cut; find('\n', -1) looks at
\* the last character only, and content[:-1] drops the last character
from_idx(s) ==
    LET f == find(s, <<"FROM">>, 1)
        n == IF f = 0
             THEN (IF Len(s) > 0 /\ s[Len(s)] = NL THEN Len(s) ELSE 0)
             ELSE find(s, <<NL>>, f)
    IN  IF n # 0 THEN n - 1
        ELSE IF Len(s) = 0 THEN 0 ELSE Len(s) - 1

insert_after_from(s, combined_command) ==
    Slice(s, 1, from_idx(s)) \o <<NL>> \o combined_command
        \o Slice(s, from_idx(s) + 1, Len(s))

----------------------------------------------------------------------------
(* optimize_apt_commands *)

apt_pattern == { <<"RUN", SP, "apt-get", SP, "update">> }

apt_commands(s) == findall(s, apt_pattern)

apt_packages(s) == extract_packages(apt_commands(s), <<"install", SP, "-y">>)

apt_combined_command(packages) ==
    <<"RUN", SP, "apt-get", SP, "update", SP, "&&", SP, BS, NL>>
    \o <<IND4, "DEBIAN_FRONTEND=noninteractive", SP, BS, NL>>
    \o <<IND4, "apt-get", SP, "install", SP, "-y", SP,
         "--no-install-recommends", SP, BS, NL>>
    \o <<IND8>> \o join(<<SP, BS, NL, IND8>>, sorted(packages)) \o <<SP, BS, NL>>
    \o <<IND4, "&&", SP, "apt-get", SP, "clean", SP, BS, NL>>
    \o <<IND4, "&&", SP, "rm", SP, "-rf", SP, "/var/lib/apt/lists/", "*">>

optimize_apt_commands(dockerfile_content) ==
    IF apt_commands(dockerfile_content) = <<>> THEN dockerfile_content
    ELSE insert_after_from(
             collapse_blank_lines(
                 remove_commands(dockerfile_content,
                                 apt_commands(dockerfile_content))),
             apt_combined_command(apt_packages(dockerfile_content)))

----------------------------------------------------------------------------
(* optimize_pip_commands *)

pip_pattern == { <<"RUN", SP, "pip", SP, "install">>,
                 <<"RUN", SP, "pip3", SP, "install">> }

pip_commands(s) == findall(s, pip_pattern)

pip_packages(s) == extract_packages(pip_commands(s), <<"install">>)

pip_combined_command ==
    <<"COPY", SP, "requirements.txt", SP, "/tmp/", NL>>
    \o <<"RUN", SP, "pip", SP, "install", SP, "--no-cache-dir", SP, "-r", SP,
         "/tmp/requirements.txt", SP, "&&", SP, BS, NL>>
    \o <<IND4, "rm", SP, "/tmp/requirements.txt">>

optimize_pip_commands(dockerfile_content) ==
    IF pip_commands(dockerfile_content) = <<>> THEN dockerfile_content
    ELSE insert_after_from(
             collapse_blank_lines(
                 remove_commands(dockerfile_content,
                                 pip_commands(dockerfile_content))),
             pip_combined_command)

\* a file: whether it exists, and its text
NoFile == [exists |-> FALSE, content |-> <<>>]

File(text) == [exists |-> TRUE, content |-> text]

\* with open('requirements.txt', 'w') as f: f.write('\n'.join(sorted(packages)))
\* the file requirements.txt after optimize_pip_commands(dockerfile_content)
write_requirements(dockerfile_content, file) ==
    IF pip_commands(dockerfile_content) = <<>> THEN file
    ELSE File(join(<<NL>>, sorted(pip_packages(dockerfile_content))))

----------------------------------------------------------------------------
(* optimize_copy_commands *)

dockerignore_entries ==
    <<".git", ".gitignore", "Dockerfile", ".dockerignore", "__pycache__",
      "*.pyc", "*.pyo", "*.pyd", ".Python", "env", "pip-log.txt",
      "pip-delete-this-directory.txt", ".tox", ".coverage", ".coverage.*",
      "htmlcov", ".pytest_cache", ".env", ".venv", "venv", "node_modules",
      "npm-debug.log">>

NoMatch == [ok |-> FALSE, src |-> <<>>, dest |-> <<>>, end |-> 0]

\* the position after the greedy [\s\\]*\n that starts at k: after the last
\* newline of the run of white space and backslashes
RECURSIVE tail_end(_, _, _)
tail_end(s, k, e) ==
    IF k > Len(s) \/ s[k] \notin WSB THEN e
    ELSE tail_end(s, k + 1, IF s[k] = NL THEN k + 1 ELSE e)

\* the second \s+ of copy_pattern, greedy, followed by the lazy destination
RECURSIVE copy_dest(_, _, _, _)
copy_dest(s, a, b, c) ==
    IF c <= b + 1 THEN NoMatch
    ELSE IF c <= Len(s) /\ group_end(s, c, c) # 0
         THEN [ok |-> TRUE, src |-> Slice(s, a, b),
               dest |-> Slice(s, c, group_end(s, c, c)),
               end |-> tail_end(s, group_end(s, c, c) + 1, 0)]
         ELSE copy_dest(s, a, b, c - 1)

\* the lazy source (.+?) that starts at a
RECURSIVE copy_src(_, _, _)
copy_src(s, a, b) ==
    IF b > Len(s) \/ s[b] = NL THEN NoMatch
    ELSE LET m == IF b + 1 <= Len(s) /\ s[b + 1] \in WS
                  THEN copy_dest(s, a, b, ws_run_end(s, b + 1))
                  ELSE NoMatch
         IN  IF m.ok THEN m ELSE copy_src(s, a, b + 1)

\* the first \s+ of copy_pattern, greedy, after the COPY at position j - 1
RECURSIVE copy_args(_, _, _)
copy_args(s, j, a) ==
    IF a <= j THEN NoMatch
    ELSE LET m == IF a <= Len(s) THEN copy_src(s, a, a) ELSE NoMatch
         IN  IF m.ok THEN m ELSE copy_args(s, j, a - 1)

\* copy_pattern = r'COPY\s+(.+?)\s+(.+?)[\s\\]*\n' matched at position i
copy_pattern(s, i) ==
    IF s[i] = "COPY" THEN copy_args(s, i + 1, ws_run_end(s, i + 1))
    ELSE NoMatch

\* the matches of re.findall(copy_pattern, s): the two groups of each match,
\* with its first and its last token
RECURSIVE copy_scan(_, _)
copy_scan(s, i) ==
    IF i > Len(s) THEN <<>>
    ELSE LET m == copy_pattern(s, i)
         IN  IF m.ok
             THEN <<[src |-> m.src, dest |-> m.dest, from |-> i, to |-> m.end - 1]>>
                      \o copy_scan(s, m.end)
             ELSE copy_scan(s, i + 1)

\* the list re.findall returns: the (source, destination) pairs
copy_commands(s) ==
    LET ms == copy_scan(s, 1)
    IN  [k \in 1..Len(ms) |-> [src |-> ms[k].src, dest |-> ms[k].dest]]

\* copy_groups: the destinations in the order they were first met, each with
\* the list of its sources
RECURSIVE copy_groups(_)
copy_groups(commands) ==
    IF commands = <<>> THEN <<>>
    ELSE LET n == Len(commands)
             before == copy_groups(Slice(commands, 1, n - 1))
             c == commands[n]
         IN  IF \E k \in 1..Len(before) : before[k].dest = c.dest
             THEN [k \in 1..Len(before) |->
                      IF before[k].dest = c.dest
                      THEN [dest |-> c.dest,
                            sources |-> Append(before[k].sources, c.src)]
                      ELSE before[k]]
             ELSE Append(before, [dest |-> c.dest, sources |-> <<c.src>>])

\* the loop that replaces f'COPY {cmd_src} {cmd_dest}' by ''
RECURSIVE remove_copies(_, _)
remove_copies(s, commands) ==
    IF commands = <<>> THEN s
    ELSE remove_copies(
             replace(s, <<"COPY", SP>> \o commands[1].src \o <<SP>>
                           \o commands[1].dest),
             Tail(commands))

\* optimized_copies: one instruction per destination
optimized_copies(groups) ==
    [k \in 1..Len(groups) |->
        IF Len(groups[k].sources) = 1
        THEN <<"COPY", SP>> \o groups[k].sources[1] \o <<SP>> \o groups[k].dest
        ELSE <<"COPY", SP>> \o join(<<SP>>, groups[k].sources) \o <<SP>>
                 \o groups[k].dest \o <<"/">>]

\* copy_insert_point = content.find('CMD'), len(content) if -1: the number
\* of tokens before the insertion
copy_insert_point(s) ==
    IF find(s, <<"CMD">>, 1) = 0 THEN Len(s) ELSE find(s, <<"CMD">>, 1) - 1

\* the first element of the tuple returned by optimize_copy_commands
optimize_copy_commands(dockerfile_content) ==
    IF copy_commands(dockerfile_content) = <<>> THEN dockerfile_content
    ELSE LET commands == copy_commands(dockerfile_content)
             removed == remove_copies(dockerfile_content, commands)
             p == copy_insert_point(removed)
         IN  Slice(removed, 1, p)
                 \o join(<<NL>>, optimized_copies(copy_groups(commands)))
                 \o <<NL>> \o Slice(removed, p + 1, Len(removed))

----------------------------------------------------------------------------
(* add_build_optimization_args *)

build_args ==
    <<"#", SP, "Build", SP, "arguments", SP, "for", SP, "optimization", NL,
      "ARG", SP, "BUILDKIT_INLINE_CACHE=1", NL,
      "ARG", SP, "DOCKER_BUILDKIT=1", NL>>

add_build_optimization_args(dockerfile_content) ==
    build_args \o dockerfile_content

----------------------------------------------------------------------------
(* The input documents *)

FromLine == <<"FROM", SP, "u">>

AptLine(p) == <<"RUN", SP, "apt-get", SP, "update", SP, "&&", SP,
                "apt-get", SP, "install", SP, "-y", SP, p>>

\* an install instruction continued over two lines
AptContinued == <<"RUN", SP, "apt-get", SP, "update", SP, "&&", SP, BS, NL,
                  IND4, "apt-get", SP, "install", SP, "-y", SP, "a">>

PipLine == <<"RUN", SP, "pip", SP, "install", SP, "f">>

CopyLine(src, d) == <<"COPY", SP, src, SP, "/", d>>

\* a COPY line with one argument only
CopyOneArg == <<"COPY", SP, "A">>

\* a line that is no CMD instruction and contains the text CMD
EnvLine == <<"ENV", SP, "CMD", "=", "1">>

CmdLine == <<"CMD", SP, "x">>

\* a line before the base image that contains the text FROM
ArgLine == <<"ARG", SP, "FROM", "=", "1">>

BlankLine == <<>>

\* the lines a document is made of: a document holds the instructions of one
\* family next to the lines that anchor or disturb the rewrite of that family
AptFamily == { FromLine, AptLine("a"), AptLine("b"), AptContinued, BlankLine }

PipFamily == { FromLine, PipLine, CopyLine("A", "x"), EnvLine, CmdLine }

CopyFamily == { FromLine, CopyLine("A", "x"), CopyLine("B", "x"),
                CopyLine("C", "y"), CopyOneArg, EnvLine, CmdLine }

\* the lines around the base-image declaration
AnchorFamily == { ArgLine, FromLine, AptLine("a"), PipLine }

Families == { AptFamily, PipFamily, CopyFamily, AnchorFamily }

\* the documents of 1..MaxLines lines, the lines separated by newlines
Docs ==
    UNION { UNION { { join(<<NL>>, ls) : ls \in [1..n -> F] } : n \in 1..MaxLines }
            : F \in Families }

----------------------------------------------------------------------------
(* analyze_dockerfile: the pipeline and the persistence of the ignore list *)

CallerIgnore == File(<<"mine">>)

Init ==
    /\ input \in Docs
    /\ doc = input
    /\ pc = "apt"
    /\ run = 1
    /\ requirements = NoFile
    /\ dockerignore \in {NoFile, CallerIgnore}

OptimizeApt ==
    /\ pc = "apt"
    /\ doc' = optimize_apt_commands(doc)
    /\ pc' = "pip"
    /\ UNCHANGED <<input, run, requirements, dockerignore>>

OptimizePip ==
    /\ pc = "pip"
    /\ doc' = optimize_pip_commands(doc)
    /\ requirements' = write_requirements(doc, requirements)
    /\ pc' = "copy"
    /\ UNCHANGED <<input, run, dockerignore>>

OptimizeCopy ==
    /\ pc = "copy"
    /\ doc' = optimize_copy_commands(doc)
    /\ pc' = "args"
    /\ UNCHANGED <<input, run, requirements, dockerignore>>

AddBuildArgs ==
    /\ pc = "args"
    /\ doc' = add_build_optimization_args(doc)
    /\ pc' = "ignore"
    /\ UNCHANGED <<input, run, requirements, dockerignore>>

\* save_dockerignore with a slip: the test for an existing file is missing
save_dockerignore_always(file) ==
    File(join(<<NL>>, [k \in 1..Len(dockerignore_entries)
                         |-> <<dockerignore_entries[k]>>]))

\* if not dockerignore_path.exists(): f.write('\n'.join(dockerignore_entries))
save_dockerignore(file) ==
    IF ~file.exists
    THEN File(join(<<NL>>, [k \in 1..Len(dockerignore_entries)
                              |-> <<dockerignore_entries[k]>>]))
    ELSE file

SaveDockerignore ==
    /\ pc = "ignore"
    /\ dockerignore' = save_dockerignore(dockerignore)
    /\ pc' = "done"
    /\ UNCHANGED <<input, doc, run, requirements>>

\* the pipeline is run again, on the text it produced
Reanalyze ==
    /\ pc = "done"
    /\ run < MaxRuns
    /\ input' = doc
    /\ pc' = "apt"
    /\ run' = run + 1
    /\ UNCHANGED <<doc, requirements, dockerignore>>

Next ==
    \/ OptimizeApt
    \/ OptimizePip
    \/ OptimizeCopy
    \/ AddBuildArgs
    \/ SaveDockerignore

Spec == Init /\ [][Next]_vars

\* the pipeline run again and again on its own output
NextRerun == Next \/ Reanalyze

SpecRerun == Init /\ [][NextRerun]_vars

----------------------------------------------------------------------------
(* What the properties speak of: the lines and the instructions of a text *)

\* the lines of a text: the runs of tokens between its newlines
RECURSIVE lines_from(_, _, _)
lines_from(s, i, line) ==
    IF i > Len(s) THEN <<line>>
    ELSE IF s[i] = NL THEN <<line>> \o lines_from(s, i + 1, <<>>)
    ELSE lines_from(s, i + 1, Append(line, s[i]))

lines_of(s) == lines_from(s, 1, <<>>)

StartsWith(line, lit) == OccursAt(line, lit, 1)

\* a base-image declaration: a line that starts with FROM
HasFromLine(s) ==
    \E k \in 1..Len(lines_of(s)) : StartsWith(lines_of(s)[k], <<"FROM">>)

\* the line starts an apt (pip) install instruction
IsAptInstruction(line) == \E l \in apt_pattern : StartsWith(line, l)

IsPipInstruction(line) == \E l \in pip_pattern : StartsWith(line, l)

\* the line is continued on the next one
IsContinued(line) == line # <<>> /\ line[Len(line)] = BS

\* a whole install instruction on one line: it ends with its package name
IsSingleLineInstall(line) ==
    /\ IsAptInstruction(line) \/ IsPipInstruction(line)
    /\ ~IsContinued(line)
    /\ Len(line) >= 3
    /\ line[Len(line) - 1] = SP
    /\ line[Len(line)] \notin WSB

\* a COPY instruction with exactly two arguments on one line
IsTwoArgCopy(line) ==
    /\ StartsWith(line, <<"COPY", SP>>)
    /\ ~IsContinued(line)
    /\ Cardinality(split(Tail(line))) = 2

\* the COPY instructions of a text: its lines that start with COPY
copy_instructions(s) ==
    SelectSeq(lines_of(s), LAMBDA line : StartsWith(line, <<"COPY">>))

\* the whole pipeline has run once on the text read
FirstRunDone == run = 1 /\ pc = "done"

----------------------------------------------------------------------------
(* C1 *)

\* C1: for a document with a FROM line, running the pipeline on its own
\* output returns exactly that output: rewrite(rewrite(d)) = rewrite(d).
\* In the second run input is the output of the first run and doc the output
\* of the second.
RewriteIsIdempotent ==
    (run = 2 /\ pc = "done" /\ HasFromLine(input)) => doc = input

----------------------------------------------------------------------------
(* C2 *)

\* the install and copy instructions of the text are well-formed single-line
\* instructions: no line is continued, and every line that starts an install
\* or a copy instruction is a whole instruction
WellFormedInstructions(s) ==
    \A k \in 1..Len(lines_of(s)) :
        LET line == lines_of(s)[k]
        IN  /\ ~IsContinued(line)
            /\ IsAptInstruction(line) \/ IsPipInstruction(line)
                   => IsSingleLineInstall(line)
            /\ StartsWith(line, <<"COPY">>) => IsTwoArgCopy(line)

\* the package names the install instructions of the text name
named_packages(s) ==
    { lines_of(s)[k][Len(lines_of(s)[k])] :
        k \in { j \in 1..Len(lines_of(s)) : IsSingleLineInstall(lines_of(s)[j]) } }

\* the (source, destination) pairs of the copy instructions of the text
copy_pairs(s) ==
    { LET words == split(Tail(lines_of(s)[k]))
          src == CHOOSE w \in words : OccursAt(lines_of(s)[k], w, 3)
      IN  [src |-> src, dest |-> CHOOSE w \in words : w # src] :
        k \in { j \in 1..Len(lines_of(s)) : IsTwoArgCopy(lines_of(s)[j]) } }

\* a copy instruction of the text copies src to dest: it names src among its
\* sources, and dest (with or without the trailing separator) as destination
CopiesTo(s, pair) ==
    \E k \in 1..Len(copy_instructions(s)) :
        LET c == copy_instructions(s)[k]
            n == Len(pair.dest)
        IN  /\ pair.src \in split(Slice(c, 2, Len(c) - n - 1))
            /\ \/ Slice(c, Len(c) - n + 1, Len(c)) = pair.dest
               \/ Slice(c, Len(c) - n, Len(c)) = pair.dest \o <<"/">>

\* C2: for every document with a FROM line whose install and copy
\* instructions are well-formed single-line instructions, every package name
\* of an install instruction and every copy (source, destination) pair of the
\* input appears in the text the pipeline returns.
Conservation ==
    (FirstRunDone /\ HasFromLine(input) /\ WellFormedInstructions(input)) =>
        /\ \A p \in named_packages(input) : \E k \in 1..Len(doc) : doc[k] = p
        /\ \A pair \in copy_pairs(input) : CopiesTo(doc, pair)

----------------------------------------------------------------------------
(* C3 *)

\* the position of a pipeline that ended by signalling MalformedDocument
MalformedDocument == "MalformedDocument"

\* C3: when a package-install pass has at least one matched span and the
\* document has no FROM declaration, the pass signals MalformedDocument and
\* hands on no rewritten document.
FailCaseSignalsMalformedDocument ==
    [][ ( /\ ~HasFromLine(doc)
          /\ \/ pc = "apt" /\ apt_commands(doc) # <<>>
             \/ pc = "pip" /\ pip_commands(doc) # <<>> )
        => pc' = MalformedDocument /\ doc' = doc ]_vars

----------------------------------------------------------------------------
(* C4 *)

\* a whole apt install instruction on one line
IsAptLine(line) == IsAptInstruction(line) /\ IsSingleLineInstall(line)

\* the text with its apt install lines in the reverse order, every other line
\* in its place
reorder_apt(s) ==
    LET ls == lines_of(s)
        at == { k \in 1..Len(ls) : IsAptLine(ls[k]) }
        rank(k) == Cardinality({ j \in at : j <= k })
        nth(r) == CHOOSE k \in at : rank(k) = r
    IN  join(<<NL>>, [k \in 1..Len(ls) |->
                        IF k \in at THEN ls[nth(Cardinality(at) + 1 - rank(k))]
                        ELSE ls[k]])

\* the canonical install instruction optimize_apt_commands emits for a text
apt_canonical(s) ==
    IF apt_commands(s) = <<>> THEN <<>> ELSE apt_combined_command(apt_packages(s))

\* C4: two documents that differ only in the order of their apt install
\* instructions get byte-identical canonical install instructions.
AptOrderIndependent ==
    (run = 1 /\ pc = "apt") =>
        apt_canonical(reorder_apt(input)) = apt_canonical(input)

----------------------------------------------------------------------------
(* C5 *)

\* the copy instructions of the text are exactly COPY A /x, COPY B /x and
\* COPY C /y, A before B, each a line of its own that a newline ends, and no
\* other line names COPY
ThreeCopies(s) ==
    /\ copy_instructions(s) \in
         { <<CopyLine("A", "x"), CopyLine("B", "x"), CopyLine("C", "y")>>,
           <<CopyLine("A", "x"), CopyLine("C", "y"), CopyLine("B", "x")>>,
           <<CopyLine("C", "y"), CopyLine("A", "x"), CopyLine("B", "x")>> }
    /\ \A k \in 1..Len(lines_of(s)) :
         (\E j \in 1..Len(lines_of(s)[k]) : lines_of(s)[k][j] = "COPY")
             => StartsWith(lines_of(s)[k], <<"COPY">>) /\ k < Len(lines_of(s))

GroupedX == <<"COPY", SP, "A", SP, "B", SP, "/", "x", "/">>

DirectY == <<"COPY", SP, "C", SP, "/", "y">>

\* C5: for a document whose copy instructions are exactly COPY A /x,
\* COPY B /x and COPY C /y, the output of the copy pass has exactly two copy
\* instructions: COPY A B /x/ and COPY C /y, the one whose destination was met
\* first in the document coming first; none of the originals remains.
CopyGroupingCorrect ==
    [][ (pc = "copy" /\ ThreeCopies(doc)) =>
            copy_instructions(doc') =
                IF copy_instructions(doc)[1] = CopyLine("C", "y")
                THEN <<DirectY, GroupedX>> ELSE <<GroupedX, DirectY>> ]_vars

----------------------------------------------------------------------------
(* C6 *)

\* C6: the rewrite passes leave the file system unchanged: no file is
\* created or overwritten by optimize_apt_commands, optimize_pip_commands,
\* optimize_copy_commands or add_build_optimization_args.
PassesLeaveFilesAlone ==
    [][ (pc \in {"apt", "pip", "copy", "args"}) =>
            requirements' = requirements /\ dockerignore' = dockerignore ]_vars

----------------------------------------------------------------------------
(* C7 *)

\* the first and the last token of every line of the text (to = from - 1
\* for an empty line)
RECURSIVE line_bounds_from(_, _, _)
line_bounds_from(s, i, start) ==
    IF i > Len(s) THEN <<[from |-> start, to |-> Len(s)]>>
    ELSE IF s[i] = NL
         THEN <<[from |-> start, to |-> i - 1]>> \o line_bounds_from(s, i + 1, i + 1)
         ELSE line_bounds_from(s, i + 1, start)

line_bounds(s) == line_bounds_from(s, 1, 1)

\* the lines of the text that are not empty and have no token in a span
unmatched_lines(s, spans) ==
    LET b == line_bounds(s)
        free(k) == /\ b[k].from <= b[k].to
                   /\ \A n \in 1..Len(spans) :
                        spans[n].to < b[k].from \/ b[k].to < spans[n].from
        RECURSIVE from(_)
        from(k) == IF k > Len(b) THEN <<>>
                   ELSE IF free(k) THEN <<Slice(s, b[k].from, b[k].to)>> \o from(k + 1)
                   ELSE from(k + 1)
    IN  from(1)

\* the elements of a occur in b, in the same order
RECURSIVE is_subsequence(_, _)
is_subsequence(a, b) ==
    IF a = <<>> THEN TRUE
    ELSE IF b = <<>> THEN FALSE
    ELSE IF a[1] = b[1] THEN is_subsequence(Tail(a), Tail(b))
    ELSE is_subsequence(a, Tail(b))

LinesKept(before, spans, after) ==
    is_subsequence(unmatched_lines(before, spans), lines_of(after))

\* C7: every pass keeps each line that is not part of a span it matched:
\* the line is in the output of the pass character for character, and these
\* lines keep their relative order.
UnrelatedLinesKept ==
    [][ /\ pc = "apt" => LinesKept(doc, find_spans(doc, apt_pattern, 1), doc')
        /\ pc = "pip" => LinesKept(doc, find_spans(doc, pip_pattern, 1), doc')
        /\ pc = "copy" => LinesKept(doc, copy_scan(doc, 1), doc')
        /\ pc = "args" => LinesKept(doc, <<>>, doc') ]_vars

----------------------------------------------------------------------------
(* C8 *)

Contains(s, lits) == \E l \in lits : find(s, l, 1) # 0

\* C8: a pass whose family has no span in the document (no RUN apt-get
\* update, no RUN pip|pip3 install, no two-argument COPY line) returns the
\* document unchanged.
ZeroMatchPassesAreNoOps ==
    [][ /\ (pc = "apt" /\ ~Contains(doc, apt_pattern)) => doc' = doc
        /\ (pc = "pip" /\ ~Contains(doc, pip_pattern)) => doc' = doc
        /\ ( /\ pc = "copy"
             /\ \A k \in 1..Len(lines_of(doc)) : ~IsTwoArgCopy(lines_of(doc)[k]) )
               => doc' = doc ]_vars

----------------------------------------------------------------------------
(* C9 *)

\* C9: a .dockerignore that exists is never changed; the file changes only
\* when it did not exist, and then to the fixed ignore list.
IgnoreFileNeverOverwritten ==
    [][ /\ dockerignore.exists => dockerignore' = dockerignore
        /\ dockerignore' # dockerignore =>
               /\ pc = "ignore"
               /\ dockerignore'.exists
               /\ lines_of(dockerignore'.content) =
                      [k \in 1..Len(dockerignore_entries) |-> <<dockerignore_entries[k]>>]
      ]_vars

\* analyze_dockerfile is past its persistence step and the file of the
\* caller is still there
CallerIgnoreSurvived == pc = "done" /\ dockerignore = CallerIgnore

----------------------------------------------------------------------------
(* C10 *)

\* the last line of the instruction that starts on line k: the first line
\* from k on that is not continued
RECURSIVE last_line(_, _)
last_line(ls, k) ==
    IF k >= Len(ls) \/ ~IsContinued(ls[k]) THEN k ELSE last_line(ls, k + 1)

\* every install instruction of the family that is written over several
\* lines is one span, from its first line to its last, and none of its
\* continuation lines is a line of the text after the pass
ContinuedInstallsRemoved(before, lits, after) ==
    LET ls == lines_of(before)
        b == line_bounds(before)
        spans == find_spans(before, lits, 1)
    IN  \A k \in 1..Len(ls) :
            ((\E l \in lits : StartsWith(ls[k], l)) /\ IsContinued(ls[k])) =>
                /\ \E n \in 1..Len(spans) :
                       /\ spans[n].from = b[k].from
                       /\ spans[n].to >= b[last_line(ls, k)].to
                /\ \A i \in (k + 1)..last_line(ls, k) :
                       \A j \in 1..Len(lines_of(after)) : lines_of(after)[j] # ls[i]

\* C10: the span of an install instruction written over several lines
\* covers its continuation lines, and after the pass no continuation line of
\* the instruction remains in the document.
SpanCoversContinuationLines ==
    [][ /\ pc = "apt" => ContinuedInstallsRemoved(doc, apt_pattern, doc')
        /\ pc = "pip" => ContinuedInstallsRemoved(doc, pip_pattern, doc') ]_vars

----------------------------------------------------------------------------
(* C11 *)

\* the number of the first line that starts with FROM, 0 when there is none
first_from_line(s) ==
    IF HasFromLine(s)
    THEN CHOOSE k \in 1..Len(lines_of(s)) :
             /\ StartsWith(lines_of(s)[k], <<"FROM">>)
             /\ \A j \in 1..(k - 1) : ~StartsWith(lines_of(s)[j], <<"FROM">>)
    ELSE 0

\* the first FROM line of the text before the pass is the first FROM line
\* of the text after it, and the lines right after it are the lines of the
\* canonical instruction
AnchoredAfterFrom(before, combined_command, after) ==
    LET lb == lines_of(before)
        la == lines_of(after)
        cl == lines_of(combined_command)
        k == first_from_line(after)
    IN  /\ k # 0
        /\ la[k] = lb[first_from_line(before)]
        /\ k + Len(cl) <= Len(la)
        /\ \A j \in 1..Len(cl) : la[k + j] = cl[j]

\* C11: when the apt (pip) pass matches a span in a document that has a FROM
\* line, the canonical instruction it emits starts on the line right after
\* the first FROM line, and that FROM line is left intact; also when the
\* FROM line is the last line after the removal and when the text FROM
\* occurs first outside a FROM line.
InstallAnchoredAfterFrom ==
    [][ /\ (pc = "apt" /\ HasFromLine(doc) /\ apt_commands(doc) # <<>>) =>
            AnchoredAfterFrom(doc, apt_combined_command(apt_packages(doc)), doc')
        /\ (pc = "pip" /\ HasFromLine(doc) /\ pip_commands(doc) # <<>>) =>
            AnchoredAfterFrom(doc, pip_combined_command, doc') ]_vars

----------------------------------------------------------------------------
(* C12 *)

\* the number of the first line that starts with CMD, 0 when there is none
first_cmd_line(s) ==
    IF \E k \in 1..Len(lines_of(s)) : StartsWith(lines_of(s)[k], <<"CMD">>)
    THEN CHOOSE k \in 1..Len(lines_of(s)) :
             /\ StartsWith(lines_of(s)[k], <<"CMD">>)
             /\ \A j \in 1..(k - 1) : ~StartsWith(lines_of(s)[j], <<"CMD">>)
    ELSE 0

\* the canonical copy instructions are whole lines of the text after the
\* pass: the lines right before its first CMD line when the text before the
\* pass has a CMD line, its last lines otherwise (the newline that ends the
\* last of them may end the text)
InsertedBeforeCmd(before, copies, after) ==
    LET la == lines_of(after)
        n == Len(copies)
        k == first_cmd_line(after)
        m == IF la[Len(la)] = <<>> THEN Len(la) - 1 ELSE Len(la)
    IN  IF first_cmd_line(before) # 0
        THEN k > n /\ SubSeq(la, k - n, k - 1) = copies
        ELSE m >= n /\ SubSeq(la, m - n + 1, m) = copies

\* C12: when the copy pass matches a COPY instruction, the canonical copy
\* instructions are inserted as whole lines right before the first CMD
\* line, or at the end of the document when it has no CMD line; the
\* insertion point is never inside a line that contains the text CMD.
CopiesAnchoredBeforeCmd ==
    [][ (pc = "copy" /\ copy_commands(doc) # <<>>) =>
            InsertedBeforeCmd(doc,
                              optimized_copies(copy_groups(copy_commands(doc))),
                              doc') ]_vars

----------------------------------------------------------------------------
(* C13 *)

\* the text has a pip install instruction
HasPipInstruction(s) ==
    \E k \in 1..Len(lines_of(s)) : IsPipInstruction(lines_of(s)[k])

\* the text has the canonical pip instruction, and every line that starts
\* the canonical pip instruction has the line that copies requirements.txt
\* somewhere above it
CopyPrecedesInstall(s) ==
    LET ls == lines_of(s)
        copy_line == lines_of(pip_combined_command)[1]
        run_line == lines_of(pip_combined_command)[2]
    IN  /\ \E j \in 1..Len(ls) : ls[j] = run_line
        /\ \A j \in 1..Len(ls) :
               ls[j] = run_line => \E i \in 1..(j - 1) : ls[i] = copy_line

\* C13: in the output of the whole pipeline on a document with a FROM line
\* and a pip install instruction, the line 'COPY requirements.txt /tmp/'
\* that the pip pass inserted is still above the 'RUN pip install
\* --no-cache-dir -r /tmp/requirements.txt' instruction that reads the
\* file: the copy pass has not moved it below.
PipCopyStaysAboveInstall ==
    (FirstRunDone /\ HasFromLine(input) /\ HasPipInstruction(input)) =>
        CopyPrecedesInstall(doc)

=============================================================================
